---- MODULE Spec2Model ----
(***************************************************************************)
(* Shamir secret sharing (package shamirsplit): Split, Join and the        *)
(* rejection sampler randomNumber, as a state machine.  One call of Split  *)
(* is followed by calls of Join on k of its shares (Spec); Join is also    *)
(* run on arbitrary inputs (SpecJoin) and randomNumber on arbitrary        *)
(* bounds (SpecSampler).                                                   *)
(***************************************************************************)
EXTENDS Integers, Sequences, FiniteSets

VARIABLES
    pc,         \* position of the running call
    legacyGCD,  \* which math/big the build links: big.Int.GCD before Go 1.14
                \* sets x = 0 when an argument is <= 0, later ones do not
    secret,     \* Split: secret
    modulus,    \* Split, Join: modulus
    k,          \* Split: k
    n,          \* Split: n
    a,          \* Split: the coefficients a[0..] set so far (1-based here)
    shares,     \* Split: the returned shares (<<>> is nil)
    err,        \* Split: the returned error
    max,        \* randomNumber: max
    bytes,      \* randomNumber: the part of the buffer io.ReadFull has filled
    cand,       \* randomNumber: n, the last candidate
    rnErr,      \* randomNumber: the returned error
    consumed,   \* random source: bytes delivered so far
    calls,      \* number of calls of randomNumber made by Split
    jShares,    \* Join: shares
    jNums,      \* Join: shareNumbers
    jI,         \* Join: outer loop index i (1-based here)
    jSecret,    \* Join: the accumulator secret
    jRet,       \* Join: the returned *big.Int (<<>> is nil, <<v>> a value)
    jErr,       \* Join: the returned error
    gcdCalls    \* Join: number of Lagrange factors (GCD calls) computed

vars == <<pc, legacyGCD, secret, modulus, k, n, a, shares, err, max, bytes,
          cand, rnErr, consumed, calls, jShares, jNums, jI, jSecret, jRet,
          jErr, gcdCalls>>

splitVars == <<secret, modulus, k, n, a, shares, err, calls>>
rnVars == <<max, bytes, cand, rnErr, consumed>>
joinVars == <<jShares, jNums, jI, jSecret, jRet, jErr, gcdCalls>>

(***************************************************************************)
(* Bounds of the model.                                                    *)
(***************************************************************************)
MaxMod == 5      \* moduli 0..MaxMod, secrets 0..MaxMod
MaxK == 3        \* k in 0..MaxK
MaxN == 3        \* n in 0..MaxN
MaxSrc == 4      \* the random source holds at most MaxSrc bytes, then EOF
MaxLen == 2      \* SpecJoin: lists of length 0..MaxLen
MaxVal == 1      \* SpecJoin: share values 0..MaxVal
MaxIdx == 3      \* SpecJoin: share numbers -1..MaxIdx
MaxWide == 2     \* SpecSampler: bounds 255-MaxWide..255 and 511-MaxWide..511

NoErr == "nil"
ErrParams == "invalid split parameters"
ErrSecret == "secret must be less than split modulus"
ErrLengths == "lengths of shares and shareNumbers must match"
ErrNegative == "found negative share number"
ErrEOF == "EOF"
ErrUnexpectedEOF == "unexpected EOF"
ErrIO == "read error"

Byte == 0 .. 255

(***************************************************************************)
(* math/big                                                                *)
(***************************************************************************)
RECURSIVE Pow(_, _)
Pow(b, e) == IF e = 0 THEN 1 ELSE b * Pow(b, e - 1)

RECURSIVE BitLen(_)
BitLen(x) == IF x = 0 THEN 0 ELSE 1 + BitLen(x \div 2)

Abs(x) == IF x < 0 THEN -x ELSE x

Sign(x) == IF x < 0 THEN -1 ELSE IF x = 0 THEN 0 ELSE 1

\* Bezout coefficients <<x, y>> of the extended Euclidean algorithm, x*p + y*q = gcd
RECURSIVE Euclid(_, _)
Euclid(p, q) ==
    IF q = 0 THEN <<1, 0>>
    ELSE LET r == Euclid(q, p % q)
         IN  <<r[2], r[1] - (p \div q) * r[2]>>

\* the x that d.GCD(x, y, p, q) sets
GCDx(p, q, legacy) ==
    IF legacy
    THEN IF p <= 0 \/ q <= 0 THEN 0 ELSE Euclid(p, q)[1]
    ELSE IF p = 0 THEN 0
         ELSE IF q = 0 THEN Sign(p)
         ELSE Sign(p) * Euclid(Abs(p), Abs(q))[1]

(***************************************************************************)
(* randomNumber                                                            *)
(***************************************************************************)
\* k := (max.BitLen() + 7) / 8
NumBytes(mx) == (BitLen(mx) + 7) \div 8

\* r := max.BitLen() % 8, 8 when that is 0
TopBits(mx) == IF BitLen(mx) % 8 = 0 THEN 8 ELSE BitLen(mx) % 8

\* n.SetBytes(bytes): big-endian
RECURSIVE SetBytes(_)
SetBytes(bs) ==
    IF Len(bs) = 0 THEN 0
    ELSE 256 * SetBytes(SubSeq(bs, 1, Len(bs) - 1)) + bs[Len(bs)]

\* bytes[0] &= uint8(int(1<<r) - 1)
MaskTop(bs, mx) == [bs EXCEPT ![1] = bs[1] % Pow(2, TopBits(mx))]

\* the candidate a full buffer gives
Candidate(bs, mx) == SetBytes(MaskTop(bs, mx))

\* faulty variant: n.Cmp(max) <= 0
AcceptsUpToMax(c, mx) == c <= mx

\* n.Cmp(max) < 0
Accepts(c, mx) == c < mx

\* io.ReadFull: EOF after a partial read becomes ErrUnexpectedEOF
ReadFullErr(e, filled) == IF e = ErrEOF /\ filled > 0 THEN ErrUnexpectedEOF ELSE e

\* io.ReadFull on a zero-length buffer reads nothing and returns nil;
\* bytes[0] is then out of range
MaskPanic ==
    /\ pc = "read"
    /\ NumBytes(max) = 0
    /\ pc' = "panic"
    /\ UNCHANGED <<legacyGCD, splitVars, rnVars, joinVars>>

\* the source delivers one more byte to io.ReadFull; a full buffer is masked,
\* converted and compared with max
ReadByte ==
    /\ pc = "read"
    /\ NumBytes(max) > 0
    /\ consumed < MaxSrc
    /\ \E b \in Byte :
         LET filled == Append(bytes, b) IN
         /\ consumed' = consumed + 1
         /\ IF Len(filled) < NumBytes(max)
            THEN /\ bytes' = filled
                 /\ UNCHANGED <<cand, rnErr, pc>>
            ELSE /\ bytes' = <<>>
                 /\ cand' = Candidate(filled, max)
                 /\ rnErr' = NoErr
                 /\ pc' = IF Accepts(Candidate(filled, max), max) THEN "rnret" ELSE "read"
    /\ UNCHANGED <<legacyGCD, splitVars, max, joinVars>>

\* the source fails (EOF once it is exhausted, or an I/O error at any time)
ReadFail ==
    /\ pc = "read"
    /\ NumBytes(max) > 0
    /\ \E e \in {ErrEOF, ErrIO} :
         /\ e = ErrEOF => consumed = MaxSrc
         /\ rnErr' = ReadFullErr(e, Len(bytes))
    /\ bytes' = <<>>
    /\ pc' = "rnret"
    /\ UNCHANGED <<legacyGCD, splitVars, max, cand, consumed, joinVars>>

\* the values randomNumber(max) can return with a nil error
RandomNumberValues(mx) ==
    IF NumBytes(mx) = 0 THEN {}
    ELSE { c \in { Candidate(bs, mx) : bs \in [1 .. NumBytes(mx) -> Byte] } : Accepts(c, mx) }

(***************************************************************************)
(* Split                                                                   *)
(***************************************************************************)
\* t = sum over j of i^j * a[j], for the coefficients a[j0..]
RECURSIVE EvalSum(_, _, _)
EvalSum(cs, i, j) ==
    IF j > Len(cs) THEN 0
    ELSE Pow(i, j - 1) * cs[j] + EvalSum(cs, i, j + 1)

\* the evaluation point of output position pos (1-based position)
EvalPoint(pos) == pos

\* shares[i-1] = t mod modulus for i = 1..n
SplitShares(cs, m, cnt) == [i \in 1 .. cnt |-> EvalSum(cs, EvalPoint(i), 1) % m]

\* faulty variant: the increment left out
CoefficientFromZero(r) == r

\* a[i].Add(a[i], one)
Coefficient(r) == r + 1

\* faulty variant: n < k not checked
ParamsInvalidKOnly(kk, nn) == kk < 1

\* the parameter checks
ParamsInvalid(kk, nn) == kk < 1 \/ nn < kk
SecretTooLarge(s, m) == s >= m

SplitCheck ==
    /\ pc = "split"
    /\ IF ParamsInvalid(k, n)
       THEN /\ err' = ErrParams
            /\ pc' = "splitdone"
            /\ UNCHANGED a
       ELSE IF SecretTooLarge(secret, modulus)
       THEN /\ err' = ErrSecret
            /\ pc' = "splitdone"
            /\ UNCHANGED a
       ELSE /\ a' = <<secret>>
            /\ pc' = "coef"
            /\ UNCHANGED err
    /\ UNCHANGED <<legacyGCD, secret, modulus, k, n, shares, calls, rnVars, joinVars>>

\* for i := 1; i < k; i++ { a[i], err = randomNumber(rand, modulusMinus1)
SplitCoefCall ==
    /\ pc = "coef"
    /\ Len(a) < k
    /\ max' = modulus - 1
    /\ bytes' = <<>>
    /\ cand' = 0
    /\ rnErr' = NoErr
    /\ calls' = calls + 1
    /\ pc' = "read"
    /\ UNCHANGED <<legacyGCD, secret, modulus, k, n, a, shares, err, consumed, joinVars>>

\* faulty variant: the error of randomNumber ignored
NeverStops(e) == FALSE

\* whether Split goes on after a failed randomNumber
StopsOnError(e) == e # NoErr

\* if err != nil { return }; a[i].Add(a[i], one)
SplitCoefReturn ==
    /\ pc = "rnret"
    /\ IF StopsOnError(rnErr)
       THEN /\ err' = rnErr
            /\ pc' = "splitdone"
            /\ UNCHANGED a
       ELSE /\ a' = Append(a, Coefficient(cand))
            /\ pc' = "coef"
            /\ UNCHANGED err
    /\ UNCHANGED <<legacyGCD, secret, modulus, k, n, shares, calls, rnVars, joinVars>>

SplitEval ==
    /\ pc = "coef"
    /\ Len(a) >= k
    /\ shares' = SplitShares(a, modulus, n)
    /\ pc' = "splitdone"
    /\ UNCHANGED <<legacyGCD, secret, modulus, k, n, a, err, calls, rnVars, joinVars>>

(***************************************************************************)
(* Join                                                                    *)
(***************************************************************************)
\* faulty variant: the share number taken as the x-coordinate
XCoordZeroBased(num) == num

\* the x-coordinate of share number num: big.NewInt(int64(shareNumbers[j] + 1))
XCoord(num) == num + 1

\* faulty variant: only the shares after i taken
TakesLater(i, j) == j > i

\* which j the inner loop takes for a given i: if i == j { continue }
Takes(i, j) == i # j

\* the inner loop of Join from index j on: c after all factors j # i
RECURSIVE Basis(_, _, _, _, _, _)
Basis(j, c, i, nums, m, legacy) ==
    IF j > Len(nums) THEN c
    ELSE IF ~Takes(i, j) THEN Basis(j + 1, c, i, nums, m, legacy)
    ELSE LET bigJ == XCoord(nums[j])
             diff == bigJ - XCoord(nums[i])
             norm == IF diff < 0 THEN diff + m ELSE diff
             x    == GCDx(norm, m, legacy)
             xn   == IF x < 0 THEN x + m ELSE x
         IN  Basis(j + 1, (c * bigJ * xn) % m, i, nums, m, legacy)

\* c.Mul(c, shares[i]) for the basis value c of share i
JoinTerm(i, sh, nums, m, legacy) == Basis(1, 1, i, nums, m, legacy) * sh[i]

\* c.Mod(c, modulus) in the inner loop divides by zero
InnerModPanics(sh, m) == m = 0 /\ Len(sh) >= 2

\* faulty variant: only the first share number checked
NegativeAtFirst(nums, i) == i = 1 /\ nums[i] < 0

\* the check at the top of the outer loop body
NegativeAt(nums, i) == nums[i] < 0

\* the whole of Join as a function of its arguments
RECURSIVE JoinFrom(_, _, _, _, _, _)
JoinFrom(i, acc, sh, nums, m, legacy) ==
    IF i > Len(sh)
    THEN IF m = 0 THEN [kind |-> "panic", ret |-> <<>>, err |-> NoErr]
         ELSE [kind |-> "return", ret |-> <<acc % m>>, err |-> NoErr]
    ELSE IF NegativeAt(nums, i)
    THEN [kind |-> "return", ret |-> <<>>, err |-> ErrNegative]
    ELSE IF InnerModPanics(sh, m)
    THEN [kind |-> "panic", ret |-> <<>>, err |-> NoErr]
    ELSE JoinFrom(i + 1, acc + JoinTerm(i, sh, nums, m, legacy), sh, nums, m, legacy)

Join(sh, nums, m, legacy) ==
    IF Len(sh) # Len(nums)
    THEN [kind |-> "return", ret |-> <<>>, err |-> ErrLengths]
    ELSE JoinFrom(1, 0, sh, nums, m, legacy)

\* the elements of a finite set of integers in increasing order
RECURSIVE Ascending(_)
Ascending(S) ==
    IF S = {} THEN <<>>
    ELSE LET lo == CHOOSE x \in S : \A y \in S : x <= y
         IN  <<lo>> \o Ascending(S \ {lo})

\* the caller hands k of the shares of a successful Split to Join, with their
\* zero-based positions: Join(shares[i:k+i], shareNumbers[i:k+i], modulus)
JoinCall ==
    /\ pc = "splitdone"
    /\ err = NoErr
    /\ \E P \in SUBSET (1 .. n) :
         /\ Cardinality(P) = k
         /\ jShares' = [m \in 1 .. k |-> shares[Ascending(P)[m]]]
         /\ jNums' = [m \in 1 .. k |-> Ascending(P)[m] - 1]
    /\ pc' = "join"
    /\ UNCHANGED <<legacyGCD, splitVars, rnVars, jI, jSecret, jRet, jErr, gcdCalls>>

JoinCheck ==
    /\ pc = "join"
    /\ IF Len(jShares) # Len(jNums)
       THEN /\ jErr' = ErrLengths
            /\ pc' = "jdone"
       ELSE /\ pc' = "jloop"
            /\ UNCHANGED jErr
    /\ UNCHANGED <<legacyGCD, splitVars, rnVars, jShares, jNums, jI, jSecret, jRet, gcdCalls>>

\* one pass of the outer loop
JoinIter ==
    /\ pc = "jloop"
    /\ jI <= Len(jShares)
    /\ IF NegativeAt(jNums, jI)
       THEN /\ jErr' = ErrNegative
            /\ pc' = "jdone"
            /\ UNCHANGED <<jI, jSecret, gcdCalls>>
       ELSE IF InnerModPanics(jShares, modulus)
       THEN /\ pc' = "panic"
            /\ gcdCalls' = gcdCalls + 1
            /\ UNCHANGED <<jI, jSecret, jErr>>
       ELSE /\ jSecret' = jSecret + JoinTerm(jI, jShares, jNums, modulus, legacyGCD)
            /\ gcdCalls' = gcdCalls + Len(jShares) - 1
            /\ jI' = jI + 1
            /\ UNCHANGED <<pc, jErr>>
    /\ UNCHANGED <<legacyGCD, splitVars, rnVars, jShares, jNums, jRet>>

\* secret.Mod(secret, modulus); return secret, nil
JoinReturn ==
    /\ pc = "jloop"
    /\ jI > Len(jShares)
    /\ IF modulus = 0
       THEN /\ pc' = "panic"
            /\ UNCHANGED <<jRet, jErr>>
       ELSE /\ jRet' = <<jSecret % modulus>>
            /\ jErr' = NoErr
            /\ pc' = "jdone"
    /\ UNCHANGED <<legacyGCD, splitVars, rnVars, jShares, jNums, jI, jSecret, gcdCalls>>

(***************************************************************************)
(* Specifications                                                          *)
(***************************************************************************)
SeqsUpTo(S, len) == UNION { [1 .. l -> S] : l \in 0 .. len }

RnIdle == /\ max = 0 /\ bytes = <<>> /\ cand = 0 /\ rnErr = NoErr /\ consumed = 0
JoinIdle ==
    /\ jShares = <<>> /\ jNums = <<>> /\ jI = 1 /\ jSecret = 0 /\ jRet = <<>>
    /\ jErr = NoErr /\ gcdCalls = 0
SplitIdle ==
    /\ secret = 0 /\ k = 0 /\ n = 0 /\ a = <<>> /\ shares = <<>> /\ err = NoErr
    /\ calls = 0

\* a call of Split, then of Join on k of its shares
Init ==
    /\ pc = "split"
    /\ legacyGCD \in BOOLEAN
    /\ secret \in 0 .. MaxMod
    /\ modulus \in 0 .. MaxMod
    /\ k \in 0 .. MaxK
    /\ n \in 0 .. MaxN
    /\ a = <<>> /\ shares = <<>> /\ err = NoErr /\ calls = 0
    /\ RnIdle
    /\ JoinIdle

Next ==
    \/ SplitCheck
    \/ SplitCoefCall
    \/ MaskPanic
    \/ ReadByte
    \/ ReadFail
    \/ SplitCoefReturn
    \/ SplitEval
    \/ JoinCall
    \/ JoinCheck
    \/ JoinIter
    \/ JoinReturn

Spec == Init /\ [][Next]_vars

\* a call of Join on arbitrary lists
InitJoin ==
    /\ pc = "join"
    /\ legacyGCD \in BOOLEAN
    /\ modulus \in 0 .. MaxMod
    /\ jShares \in SeqsUpTo(0 .. MaxVal, MaxLen)
    /\ jNums \in SeqsUpTo(-1 .. MaxIdx, MaxLen)
    /\ jI = 1 /\ jSecret = 0 /\ jRet = <<>> /\ jErr = NoErr /\ gcdCalls = 0
    /\ SplitIdle
    /\ RnIdle

NextJoin ==
    \/ JoinCheck
    \/ JoinIter
    \/ JoinReturn

SpecJoin == InitJoin /\ [][NextJoin]_vars

\* a call of randomNumber on an arbitrary bound
\* small bounds, the largest of one byte (all eight bits of the top byte used)
\* and the largest of nine bits (two bytes, one bit of the top byte used)
SampleBounds ==
    (0 .. MaxMod) \cup (255 - MaxWide .. 255) \cup (511 - MaxWide .. 511)

InitSampler ==
    /\ pc = "read"
    /\ legacyGCD = FALSE
    /\ max \in SampleBounds
    /\ bytes = <<>> /\ cand = 0 /\ rnErr = NoErr /\ consumed = 0
    /\ SplitIdle
    /\ modulus = 0
    /\ JoinIdle

NextSampler ==
    \/ MaskPanic
    \/ ReadByte
    \/ ReadFail

SpecSampler == InitSampler /\ [][NextSampler]_vars

(***************************************************************************)
(* Properties                                                              *)
(***************************************************************************)
IsPrime(p) == p > 1 /\ \A d \in 2 .. p - 1 : p % d # 0

RECURSIVE Gcd(_, _)
Gcd(p, q) == IF q = 0 THEN p ELSE Gcd(q, p % q)

Permutations(len) == { f \in [1 .. len -> 1 .. len] : \A i, j \in 1 .. len : f[i] = f[j] => i = j }

\* Horner evaluation of the polynomial with coefficients cs at x, modulo m
RECURSIVE Horner(_, _, _, _)
Horner(cs, x, m, j) ==
    IF j > Len(cs) THEN 0
    ELSE (cs[j] + x * Horner(cs, x, m, j + 1)) % m

SplitReturned == pc = "splitdone"
SplitSucceeded == pc = "splitdone" /\ err = NoErr
JoinReturned == pc = "jdone"
SourceErrors == {ErrEOF, ErrUnexpectedEOF, ErrIO}

Views(s, m, kk, cnt, P) ==
    { [i \in P |-> SplitShares(<<s>> \o cs, m, cnt)[i]] :
        cs \in [1 .. kk - 1 -> { Coefficient(r) : r \in RandomNumberValues(m - 1) }] }

\* C2: for a prime modulus, fewer than k shares reveal nothing about the
\* secret: at every set of fewer than k positions, the value tuples Split can
\* produce are the same for every two secrets.
C2_Secrecy ==
    (SplitSucceeded /\ IsPrime(modulus)) =>
        \A s2 \in 0 .. modulus - 1 : \A P \in SUBSET (1 .. n) :
            Cardinality(P) < k =>
                Views(secret, modulus, k, n, P) = Views(s2, modulus, k, n, P)

\* C3: with k < 1 or n < k Split fails with the invalid-parameters error,
\* otherwise with secret >= modulus it fails with the secret-too-large error;
\* either way it returns no shares, never enters the coefficient loop and has
\* read no byte from the random source.
C3_SplitValidation ==
    (k < 1 \/ n < k \/ secret >= modulus) =>
        /\ pc \in {"split", "splitdone"}
        /\ consumed = 0 /\ calls = 0 /\ shares = <<>>
        /\ SplitReturned =>
             err = (IF k < 1 \/ n < k THEN ErrParams ELSE ErrSecret)

C3_Witness ==
    /\ SplitReturned /\ err = ErrSecret /\ k = 2 /\ n = 3
    /\ consumed = 0 /\ shares = <<>>

JoinInputInvalid ==
    \/ Len(jShares) # Len(jNums)
    \/ \E i \in 1 .. Len(jNums) : jNums[i] < 0

\* the first position (1-based) of a negative share number
FirstNegative == CHOOSE i \in 1 .. Len(jNums) : jNums[i] < 0 /\ \A j \in 1 .. i - 1 : jNums[j] >= 0

\* C4 as stated, on the positive moduli: with lists of different lengths, or a
\* negative share number at any position, Join returns an error and no value,
\* and does so before any Lagrange factor or modular inverse has been computed.
C4_ValidationBeforeInterpolation ==
    (pc \in {"join", "jloop", "jdone", "panic"} /\ JoinInputInvalid /\ modulus > 0) =>
        /\ gcdCalls = 0
        /\ pc # "panic"
        /\ JoinReturned => (jErr # NoErr /\ jRet = <<>>)

\* C4 amended: for a positive modulus, with lists of different lengths, or a
\* negative share number at any position, Join returns an error and no value.
\* With different lengths, or a negative first share number, no Lagrange factor
\* has been computed; otherwise the error is returned when the outer loop
\* reaches the first negative entry, after all factors and inverses of the
\* shares before it have been computed.
C4_JoinValidation ==
    (pc \in {"join", "jloop", "jdone", "panic"} /\ JoinInputInvalid /\ modulus > 0) =>
        /\ pc # "panic"
        /\ Len(jShares) # Len(jNums) => gcdCalls = 0
        /\ JoinReturned =>
             /\ jRet = <<>>
             /\ jErr = (IF Len(jShares) # Len(jNums) THEN ErrLengths ELSE ErrNegative)
             /\ Len(jShares) = Len(jNums) =>
                  gcdCalls = (FirstNegative - 1) * (Len(jNums) - 1)

C4_Witness ==
    /\ JoinReturned /\ modulus > 0
    /\ Len(jShares) = 2 /\ Len(jNums) = 2
    /\ jNums[1] >= 0 /\ jNums[2] < 0
    /\ jErr = ErrNegative /\ gcdCalls = 1

\* C5: Join returns the same result on its lists of share values and
\* non-negative share numbers and on both lists permuted alike.
C5_OrderIndependent ==
    (/\ pc \in {"jdone", "panic"}
     /\ Len(jShares) = Len(jNums)
     /\ \A i \in 1 .. Len(jNums) : jNums[i] >= 0) =>
        \A f \in Permutations(Len(jNums)) :
            Join([i \in 1 .. Len(jNums) |-> jShares[f[i]]],
                 [i \in 1 .. Len(jNums) |-> jNums[f[i]]], modulus, legacyGCD)
              = [kind |-> IF pc = "panic" THEN "panic" ELSE "return",
                 ret |-> jRet, err |-> jErr]

C5_Witness ==
    /\ JoinReturned /\ jErr = NoErr
    /\ Len(jShares) = 2 /\ Len(jNums) = 2
    /\ jNums[1] >= 0 /\ jNums[2] > jNums[1]
    /\ jShares[1] # jShares[2]
    /\ jRet # <<0>>

\* C6: with a modulus that is not prime and two supplied shares whose
\* x-coordinates differ by a value with a nontrivial common factor with the
\* modulus, Join does not return a value with a nil error.
C6_NoInverseIsAnError ==
    (/\ JoinReturned
     /\ modulus > 1 /\ ~IsPrime(modulus)
     /\ Len(jShares) = Len(jNums)
     /\ \A i \in 1 .. Len(jNums) : jNums[i] >= 0
     /\ \E i, j \in 1 .. Len(jNums) :
          i # j /\ Gcd(Abs(jNums[j] - jNums[i]), modulus) > 1) =>
        jErr # NoErr

\* C7: for a positive bound randomNumber returns a value n with 0 <= n < max
\* and no error, or the failure of the random source; a masked candidate >= max
\* is never returned: after every full read that gave one, randomNumber is back
\* at the start of a full read, which goes on as long as the source delivers.
C7_SamplerRange ==
    max > 0 =>
        /\ pc = "rnret" =>
             \/ rnErr = NoErr /\ 0 <= cand /\ cand < max
             \/ rnErr \in SourceErrors
        /\ (pc = "read" /\ bytes = <<>> /\ consumed > 0) =>
             /\ cand >= max
             /\ consumed % NumBytes(max) = 0
        /\ (pc = "read" /\ consumed < MaxSrc) => ENABLED ReadByte

C7_Witness ==
    /\ pc = "rnret" /\ rnErr = NoErr
    /\ NumBytes(max) = 2
    /\ consumed = 2 * NumBytes(max)
    /\ cand = max - 1

\* C8: a successful Split returns n values and holds k coefficients with
\* a[0] = secret and every other a[j] in [1, modulus-1], such that the value at
\* output position i-1 is the polynomial at x = i modulo the modulus, in
\* [0, modulus).
C8_SharesOfOnePolynomial ==
    SplitSucceeded =>
        /\ Len(shares) = n
        /\ Len(a) = k
        /\ a[1] = secret
        /\ \A j \in 2 .. k : 1 <= a[j] /\ a[j] <= modulus - 1
        /\ \A i \in 1 .. n :
             /\ shares[i] = Horner(a, i, modulus, 1)
             /\ 0 <= shares[i] /\ shares[i] < modulus

C8_Witness ==
    /\ SplitSucceeded /\ k = 3 /\ n = 3 /\ modulus = 5
    /\ a[2] # a[3] /\ secret = 2
    /\ shares[1] # shares[2]

\* C9: Split calls the sampler once for each j = 1..k-1 in order; at the first
\* call that fails it returns that failure unchanged with no shares and reads
\* nothing more; if no call fails it has made exactly k-1 calls when it returns
\* the shares.
C9_SamplingSequence ==
    /\ pc \in {"read", "rnret"} => (calls = Len(a) /\ calls <= k - 1)
    /\ pc = "coef" => (calls = Len(a) - 1 /\ rnErr = NoErr)
    /\ (rnErr # NoErr /\ pc # "rnret") =>
         /\ SplitReturned /\ err = rnErr /\ shares = <<>>
         /\ calls = Len(a) /\ calls <= k - 1
         /\ ~ENABLED Next
    /\ SplitSucceeded => (calls = k - 1 /\ Len(a) = k /\ Len(shares) = n)

C9_Witness ==
    /\ SplitReturned /\ err = ErrEOF
    /\ k = 3 /\ calls = 2 /\ Len(a) = 2
    /\ shares = <<>>

\* C10: no call of Split or Join ends in a run-time panic.
C10_NoFatalCondition == pc # "panic"

====
